---- MODULE Spec2Model ----
\* Model of backend/main.py: the exam processing job (process_exam_background),
\* the upload handler that starts it, the JSON recovery function
\* (parse_json_from_markdown) and the study guide handler
\* (generate_study_guide), over an abstract store, file system and oracle.
EXTENDS Integers, Sequences, FiniteSets, TLC

\* ---------------------------------------------------------------- bounds
\* Number of upload requests a behaviour of Spec may contain.
MaxUploads == 1
\* Number of upload requests, and of jobs started (by an upload or by running
\* process_exam_background again), a behaviour of SpecSeq may contain.
MaxSeqJobs == 2
\* Longest reply, in tokens, given to parse_json_from_markdown (SpecRecover).
MaxLen == 5
\* Most question records over all stored analyses (SpecGuide).
MaxQuestions == 2
\* Number of upload requests a behaviour of SpecPair may contain.
MaxPairUploads == 2
\* Number of jobs, all for one document, a behaviour of SpecRace may contain.
MaxRaceJobs == 2

\* ------------------------------------------------------- program constants
\* error_msg[:1000]
ErrMsgLimit == 1000

Min(a, b) == IF a < b THEN a ELSE b

\* ------------------------------------------------------------ JSON values
\* A parsed JSON value.  kind is the Python type json.loads returns; a dict
\* records whether it has the key "summary" and the topics of the records
\* under its key "questions".
EmptyMapping == [kind |-> "dict", summary |-> FALSE, questions |-> <<>>]
SummaryMapping == [kind |-> "dict", summary |-> TRUE, questions |-> <<>>]
ListValue == [kind |-> "list", summary |-> FALSE, questions |-> <<>>]
IntValue == [kind |-> "int", summary |-> FALSE, questions |-> <<>>]

\* ------------------------------------------------------------ reply text
\* A reply is a sequence of tokens, each standing for a fixed piece of text:
\*   "FJ" = ```json    "F" = ```      "{" = {      "}" = }
\*   "kv" = "summary":"S"             "n" = 1      "L" = []
\*   "x"  = a word of prose           "w" = a blank
\* No searched-for substring straddles two tokens, so str.find on the text
\* is a search for the first token that starts with the substring.
Alphabet == {"FJ", "F", "{", "}", "kv", "n", "L", "x", "w"}

SeqsUpTo(S, n) == UNION {[1..k -> S] : k \in 0..n}

\* str.find(sub, from): first position >= from of a token in S, 0 when none
\* (Python's -1).
Find(text, S, from) ==
    IF \E i \in from..Len(text) : text[i] \in S
    THEN CHOOSE i \in from..Len(text) :
            /\ text[i] \in S
            /\ \A k \in from..(i - 1) : text[k] \notin S
    ELSE 0

\* str.rfind(sub): last position of a token in S, 0 when none.
RFind(text, S) ==
    IF \E i \in 1..Len(text) : text[i] \in S
    THEN CHOOSE i \in 1..Len(text) :
            /\ text[i] \in S
            /\ \A k \in (i + 1)..Len(text) : text[k] \notin S
    ELSE 0

\* str.strip(): drop leading and trailing blanks.
RECURSIVE Strip(_)
Strip(s) ==
    IF s = <<>> THEN s
    ELSE IF Head(s) = "w" THEN Strip(Tail(s))
    ELSE IF s[Len(s)] = "w" THEN Strip(SubSeq(s, 1, Len(s) - 1))
    ELSE s

\* json.loads: blanks between tokens are skipped; the text must be exactly
\* one JSON value.  ok = FALSE is json.JSONDecodeError.
JsonLoads(s) ==
    LET t == SelectSeq(s, LAMBDA c : c # "w") IN
    IF t = <<"{", "}">> THEN [ok |-> TRUE, val |-> EmptyMapping]
    ELSE IF t = <<"{", "kv", "}">> THEN [ok |-> TRUE, val |-> SummaryMapping]
    ELSE IF t = <<"L">> THEN [ok |-> TRUE, val |-> ListValue]
    ELSE IF t = <<"n">> THEN [ok |-> TRUE, val |-> IntValue]
    ELSE [ok |-> FALSE, val |-> EmptyMapping]

\* The three candidate substrings of parse_json_from_markdown.
FenceStart(text) == Find(text, {"FJ"}, 1)
FenceEnd(text) ==
    IF FenceStart(text) # 0 THEN Find(text, {"F", "FJ"}, FenceStart(text) + 1)
    ELSE 0
FencedBlock(text) == Strip(SubSeq(text, FenceStart(text) + 1, FenceEnd(text) - 1))
BraceSpan(text) == SubSeq(text, Find(text, {"{"}, 1), RFind(text, {"}"}))
HasBraces(text) == Find(text, {"{"}, 1) # 0 /\ RFind(text, {"}"}) # 0

\* parse_json_from_markdown: the whole text; else, inside one try block, the
\* fenced block when an opener and a closer are found (its result returned,
\* its failure caught by the block's except), else the brace span.
parse_json_from_markdown(text) ==
    IF JsonLoads(text).ok THEN JsonLoads(text).val
    ELSE IF FenceStart(text) # 0 /\ FenceEnd(text) # 0
         THEN IF JsonLoads(FencedBlock(text)).ok
              THEN JsonLoads(FencedBlock(text)).val
              ELSE EmptyMapping
    ELSE IF HasBraces(text)
         THEN IF JsonLoads(BraceSpan(text)).ok
              THEN JsonLoads(BraceSpan(text)).val
              ELSE EmptyMapping
    ELSE EmptyMapping


\* ------------------------------------------------------------ the world
Filenames == {"a.pdf", "b.pdf"}
\* What an uploaded file holds: a PDF whose text has numbered questions, a
\* PDF with plain text, a scan with no extractable text.
Contents == {"pdf_numbered", "pdf_plain", "pdf_scan"}
NoFile == "none"

\* f"temp/temp_{file.filename}"
TempPath(filename) == <<"temp/temp_", filename>>
Paths == {TempPath(f) : f \in Filenames}

\* Replies the oracle may give to a job (each within MaxLen tokens).
OracleReplies ==
    { <<"x", "FJ", "{", "kv", "}">>,      \* prose, fence opener, the object
      <<"x", "x">>,                       \* prose only
      <<"L">> }                           \* a list

\* Error texts, as sequences of pieces; `"429" in error_msg` is membership.
MsgExtract == <<"Could not extract text from PDF">>
MsgRateLimit == <<"429", "Resource exhausted">>
MsgService == <<"500", "Google", "internal error">>
MsgDeadline == <<"504", "Deadline exceeded">>
OracleErrors == {MsgRateLimit, MsgService, MsgDeadline}
MsgStore == <<"store request failed">>
MsgNoGet == <<"object has no attribute 'get'">>
UserRateLimit == <<"KI-Nutzungslimit ueberschritten (Quote). Bitte versuchen Sie es spaeter erneut.">>
UserService == <<"KI-Dienstfehler. Bitte versuchen Sie es erneut.">>

Contains(msg, piece) == \E i \in 1..Len(msg) : msg[i] = piece

\* The message stored with status failed (lines 450-461).
UserMessage(msg) ==
    IF Contains(msg, "429") THEN UserRateLimit
    ELSE IF Contains(msg, "500") /\ Contains(msg, "Google") THEN UserService
    ELSE msg
Truncate(msg) == SubSeq(msg, 1, Min(Len(msg), ErrMsgLimit))

VARIABLES
    exams,          \* table exams: id -> row (ids are 1..Len(exams))
    study_plans,    \* table study_plans: sequence of rows
    topic_summaries,\* table topic_summaries: sequence of rows
    files,          \* the temp directory: path -> content or NoFile
    uploads,        \* upload_exam requests
    jobs,           \* runs of process_exam_background
    guide,          \* generate_study_guide: the last request and its outcome
    recover         \* parse_json_from_markdown: a text and the value returned

vars == <<exams, study_plans, topic_summaries, files, uploads, jobs, guide, recover>>

Terminal == {"completed", "failed"}

NoGuide == [outcome |-> "none", topic |-> <<>>, exam_ids |-> {},
            fetched |-> {}, selected |-> <<>>, source_exam_ids |-> <<>>, id |-> 0]
NoRecover == [text |-> <<>>, applied |-> FALSE, result |-> EmptyMapping]

Init ==
    /\ exams = <<>>
    /\ study_plans = <<>>
    /\ topic_summaries = <<>>
    /\ files = [p \in Paths |-> NoFile]
    /\ uploads = <<>>
    /\ jobs = <<>>
    /\ guide = NoGuide
    /\ recover = NoRecover

\* ------------------------------------------------------------ store
RowsFor(plans, d) == {i \in 1..Len(plans) : plans[i].exam_id = d}
HasRow(d) == RowsFor(study_plans, d) # {}

\* ------------------------------------------------------------ upload_exam
NewJob(d, path, content) ==
    [exam_id |-> d, file_path |-> path, uploaded |-> content, pc |-> "queued",
     raw_text |-> "", candidates |-> 0, response |-> <<>>,
     ai_output |-> EmptyMapping, recovered |-> FALSE, existing |-> FALSE,
     error_msg |-> <<>>, file_seen |-> FALSE,
     \* observations of the run, kept after it has ended
     writes |-> <<>>, raised |-> FALSE, storeFailed |-> FALSE, escaped |-> FALSE]

\* The function has returned (or an exception has left it): its locals are
\* gone; the parameters, what it recovered and the observations remain.
Return(job) ==
    [job EXCEPT !.pc = "done", !.raw_text = "", !.candidates = 0,
                !.response = <<>>, !.error_msg = <<>>, !.file_seen = FALSE]

\* Lines 472-477: the request's bytes are written to temp/temp_<filename>.
UploadWrite(f, c) ==
    /\ files' = [files EXCEPT ![TempPath(f)] = c]
    /\ uploads' = Append(uploads, [filename |-> f, content |-> c, pc |-> "written"])
    /\ UNCHANGED <<exams, study_plans, topic_summaries, jobs, guide, recover>>

\* Lines 479-493: the row is inserted with status uploading and the job is
\* added to the background tasks.
UploadInsert(u) ==
    /\ uploads[u].pc = "written"
    /\ exams' = Append(exams, [filename |-> uploads[u].filename,
                               storage_path |-> TempPath(uploads[u].filename),
                               status |-> "uploading", error_message |-> <<>>])
    /\ jobs' = Append(jobs, NewJob(Len(exams) + 1, TempPath(uploads[u].filename),
                                   uploads[u].content))
    /\ uploads' = [uploads EXCEPT ![u].pc = "accepted"]
    /\ UNCHANGED <<study_plans, topic_summaries, files, guide, recover>>

\* Lines 486-487, 494-497: the insert fails; the temp file is removed if it
\* exists and the request ends with 500.
UploadInsertFails(u) ==
    /\ uploads[u].pc = "written"
    /\ files' = [files EXCEPT ![TempPath(uploads[u].filename)] = NoFile]
    /\ uploads' = [uploads EXCEPT ![u].pc = "error500"]
    /\ UNCHANGED <<exams, study_plans, topic_summaries, jobs, guide, recover>>


\* ---------------------------------------------- process_exam_background
\* extract_text_from_pdf: the text of the file at the path; "" when the file
\* has no text or cannot be read (the except branch returns "").
extract_text_from_pdf(content) ==
    IF content = "pdf_numbered" THEN "text_numbered"
    ELSE IF content = "pdf_plain" THEN "text_plain"
    ELSE ""

\* pre_extract_questions: the number of candidates found (never raises).
pre_extract_questions(text) == IF text = "text_numbered" THEN 2 ELSE 0

\* ai_output.get("summary", ...) raises AttributeError unless ai_output is a
\* dict.
GetRaises_EmptyFatal(v) == v.kind # "dict" \/ v = EmptyMapping
GetRaises(v) == v.kind # "dict"

\* study_plan_data (lines 433-437)
StudyPlanData(d, v) ==
    [exam_id |-> d, raw_json |-> v,
     markdown_plan |-> IF v.summary THEN "S" ELSE "Processed successfully"]

Active(j) == jobs[j].pc # "done"

\* Line 398 moved after the oracle call: the job goes on without the write.
JobMarkProcessing_Deferred(j) ==
    /\ jobs[j].pc = "queued"
    /\ jobs' = [jobs EXCEPT ![j].pc = "extract"]
    /\ UNCHANGED <<exams, study_plans, topic_summaries, files, uploads, guide, recover>>

\* Line 398: status processing is written, before the try block.
JobMarkProcessing(j) ==
    /\ jobs[j].pc = "queued"
    /\ exams' = [exams EXCEPT ![jobs[j].exam_id].status = "processing"]
    /\ jobs' = [jobs EXCEPT ![j].pc = "extract",
                            ![j].writes = Append(@, "processing")]
    /\ UNCHANGED <<study_plans, topic_summaries, files, uploads, guide, recover>>

\* Line 398 raises: the statement is outside the try block, so the exception
\* leaves the function and neither the handler nor the finally block runs.
JobMarkProcessingFails(j) ==
    /\ jobs[j].pc = "queued"
    /\ jobs' = [jobs EXCEPT ![j] = Return([@ EXCEPT !.escaped = TRUE,
                                                    !.raised = TRUE,
                                                    !.storeFailed = TRUE])]
    /\ UNCHANGED <<exams, study_plans, topic_summaries, files, uploads, guide, recover>>

\* Lines 401-410: text extraction and pre-extraction; empty text raises
\* ValueError.
JobExtract(j) ==
    /\ jobs[j].pc = "extract"
    /\ LET text == extract_text_from_pdf(files[jobs[j].file_path]) IN
       jobs' = IF text = ""
               THEN [jobs EXCEPT ![j].pc = "except", ![j].error_msg = MsgExtract,
                                 ![j].raised = TRUE]
               ELSE [jobs EXCEPT ![j].pc = "oracle", ![j].raw_text = text,
                                 ![j].candidates = pre_extract_questions(text)]
    /\ UNCHANGED <<exams, study_plans, topic_summaries, files, uploads, guide, recover>>

\* Lines 425-437: the oracle replies, the reply is recovered and
\* study_plan_data is built (ai_output.get raises on a non-dict).
JobOracleReturns(j, reply) ==
    /\ jobs[j].pc = "oracle"
    /\ LET v == parse_json_from_markdown(reply) IN
       jobs' = IF GetRaises(v)
               THEN [jobs EXCEPT ![j].pc = "except", ![j].response = reply,
                                 ![j].ai_output = v, ![j].recovered = TRUE,
                                 ![j].error_msg = MsgNoGet, ![j].raised = TRUE]
               ELSE [jobs EXCEPT ![j].pc = "select", ![j].response = reply,
                                 ![j].ai_output = v, ![j].recovered = TRUE]
    /\ UNCHANGED <<exams, study_plans, topic_summaries, files, uploads, guide, recover>>

\* Line 425 raises.
JobOracleFails(j, e) ==
    /\ jobs[j].pc = "oracle"
    /\ jobs' = [jobs EXCEPT ![j].pc = "except", ![j].error_msg = e,
                            ![j].raised = TRUE]
    /\ UNCHANGED <<exams, study_plans, topic_summaries, files, uploads, guide, recover>>

\* Line 440: existing = select from study_plans where exam_id = d.
JobSelectExisting(j) ==
    /\ jobs[j].pc = "select"
    /\ jobs' = [jobs EXCEPT ![j].pc = "upsert",
                            ![j].existing = HasRow(jobs[j].exam_id)]
    /\ UNCHANGED <<exams, study_plans, topic_summaries, files, uploads, guide, recover>>

\* Lines 441-444 with the branch removed: always insert.
JobUpsert_AlwaysInsert(j) ==
    /\ jobs[j].pc = "upsert"
    /\ study_plans' = Append(study_plans,
                             StudyPlanData(jobs[j].exam_id, jobs[j].ai_output))
    /\ jobs' = [jobs EXCEPT ![j].pc = "complete"]
    /\ UNCHANGED <<exams, topic_summaries, files, uploads, guide, recover>>

\* Lines 440-444 as one atomic upsert: the branch is taken on the rows the
\* table holds when the write is made.
JobUpsert_Atomic(j) ==
    /\ jobs[j].pc = "upsert"
    /\ LET d == jobs[j].exam_id
           data == StudyPlanData(d, jobs[j].ai_output) IN
       study_plans' =
           IF HasRow(d)
           THEN [i \in 1..Len(study_plans) |->
                    IF study_plans[i].exam_id = d THEN data ELSE study_plans[i]]
           ELSE Append(study_plans, data)
    /\ jobs' = [jobs EXCEPT ![j].pc = "complete"]
    /\ UNCHANGED <<exams, topic_summaries, files, uploads, guide, recover>>

\* Lines 441-444 with the write lost.
JobUpsert_NoWrite(j) ==
    /\ jobs[j].pc = "upsert"
    /\ jobs' = [jobs EXCEPT ![j].pc = "complete"]
    /\ UNCHANGED <<exams, study_plans, topic_summaries, files, uploads, guide, recover>>

\* Lines 441-444: update the rows of the document when the select found
\* one, insert a row otherwise.
JobUpsert(j) ==
    /\ jobs[j].pc = "upsert"
    /\ LET d == jobs[j].exam_id
           data == StudyPlanData(d, jobs[j].ai_output) IN
       study_plans' =
           IF jobs[j].existing
           THEN [i \in 1..Len(study_plans) |->
                    IF study_plans[i].exam_id = d THEN data ELSE study_plans[i]]
           ELSE Append(study_plans, data)
    /\ jobs' = [jobs EXCEPT ![j].pc = "complete"]
    /\ UNCHANGED <<exams, topic_summaries, files, uploads, guide, recover>>

\* Line 446 followed by a statement that raises: the handler runs after the
\* status completed was written.
JobMarkCompleted_ThenRaise(j) ==
    /\ jobs[j].pc = "complete"
    /\ exams' = [exams EXCEPT ![jobs[j].exam_id].status = "completed"]
    /\ jobs' = [jobs EXCEPT ![j].pc = "except", ![j].error_msg = MsgStore,
                            ![j].raised = TRUE,
                            ![j].writes = Append(@, "completed")]
    /\ UNCHANGED <<study_plans, topic_summaries, files, uploads, guide, recover>>

\* Line 446: status completed is written.
JobMarkCompleted(j) ==
    /\ jobs[j].pc = "complete"
    /\ exams' = [exams EXCEPT ![jobs[j].exam_id].status = "completed"]
    /\ jobs' = [jobs EXCEPT ![j].pc = "finally",
                            ![j].writes = Append(@, "completed")]
    /\ UNCHANGED <<study_plans, topic_summaries, files, uploads, guide, recover>>

\* A store request inside the try block (lines 440, 442/444, 446) raises and
\* changes nothing.
JobStoreFails(j) ==
    /\ jobs[j].pc \in {"select", "upsert", "complete"}
    /\ jobs' = [jobs EXCEPT ![j].pc = "except", ![j].error_msg = MsgStore,
                            ![j].raised = TRUE, ![j].storeFailed = TRUE]
    /\ UNCHANGED <<exams, study_plans, topic_summaries, files, uploads, guide, recover>>

\* Lines 449-462: the handler rewrites the message and writes status failed.
JobHandleError(j) ==
    /\ jobs[j].pc = "except"
    /\ exams' = [exams EXCEPT
                    ![jobs[j].exam_id].status = "failed",
                    ![jobs[j].exam_id].error_message =
                        Truncate(UserMessage(jobs[j].error_msg))]
    /\ jobs' = [jobs EXCEPT ![j].pc = "finally",
                            ![j].writes = Append(@, "failed")]
    /\ UNCHANGED <<study_plans, topic_summaries, files, uploads, guide, recover>>

\* Line 459 raises inside the handler: the exception leaves the function
\* after the finally block.
JobHandleErrorFails(j) ==
    /\ jobs[j].pc = "except"
    /\ jobs' = [jobs EXCEPT ![j].pc = "finally", ![j].escaped = TRUE,
                            ![j].storeFailed = TRUE]
    /\ UNCHANGED <<exams, study_plans, topic_summaries, files, uploads, guide, recover>>

\* Line 464: os.path.exists(file_path).
JobCleanupCheck(j) ==
    /\ jobs[j].pc = "finally"
    /\ LET seen == files[jobs[j].file_path] # NoFile IN
       jobs' = IF seen
               THEN [jobs EXCEPT ![j].pc = "remove", ![j].file_seen = TRUE]
               ELSE [jobs EXCEPT ![j] = Return(@)]
    /\ UNCHANGED <<exams, study_plans, topic_summaries, files, uploads, guide, recover>>

\* Line 465: os.remove(file_path); FileNotFoundError when the file has gone
\* since the check.
JobCleanupRemove(j) ==
    /\ jobs[j].pc = "remove"
    /\ files' = [files EXCEPT ![jobs[j].file_path] = NoFile]
    /\ jobs' = [jobs EXCEPT ![j] =
                    Return([@ EXCEPT !.escaped = @ \/ files[jobs[j].file_path] = NoFile,
                                     !.raised = @ \/ files[jobs[j].file_path] = NoFile])]
    /\ UNCHANGED <<exams, study_plans, topic_summaries, uploads, guide, recover>>

Next ==
    \/ \E f \in Filenames, c \in Contents :
            Len(uploads) < MaxUploads /\ UploadWrite(f, c)
    \/ \E u \in 1..Len(uploads) : UploadInsert(u)
    \/ \E u \in 1..Len(uploads) : UploadInsertFails(u)
    \/ \E j \in 1..Len(jobs) : JobMarkProcessing(j)
    \/ \E j \in 1..Len(jobs) : JobMarkProcessingFails(j)
    \/ \E j \in 1..Len(jobs) : JobExtract(j)
    \/ \E j \in 1..Len(jobs), reply \in OracleReplies : JobOracleReturns(j, reply)
    \/ \E j \in 1..Len(jobs), e \in OracleErrors : JobOracleFails(j, e)
    \/ \E j \in 1..Len(jobs) : JobSelectExisting(j)
    \/ \E j \in 1..Len(jobs) : JobUpsert(j)
    \/ \E j \in 1..Len(jobs) : JobMarkCompleted(j)
    \/ \E j \in 1..Len(jobs) : JobStoreFails(j)
    \/ \E j \in 1..Len(jobs) : JobHandleError(j)
    \/ \E j \in 1..Len(jobs) : JobHandleErrorFails(j)
    \/ \E j \in 1..Len(jobs) : JobCleanupCheck(j)
    \/ \E j \in 1..Len(jobs) : JobCleanupRemove(j)

Spec == Init /\ [][Next]_vars


\* ----------------------------------------------------- concurrent uploads
\* SpecPair: up to MaxPairUploads upload requests, whose handlers and jobs
\* interleave freely (process_exam_background is a plain function, which the
\* framework runs on a worker thread).
NextPair ==
    \/ \E f \in Filenames, c \in Contents :
            Len(uploads) < MaxPairUploads /\ UploadWrite(f, c)
    \/ \E u \in 1..Len(uploads) : UploadInsert(u)
    \/ \E u \in 1..Len(uploads) : UploadInsertFails(u)
    \/ \E j \in 1..Len(jobs) : JobMarkProcessing(j)
    \/ \E j \in 1..Len(jobs) : JobMarkProcessingFails(j)
    \/ \E j \in 1..Len(jobs) : JobExtract(j)
    \/ \E j \in 1..Len(jobs), reply \in OracleReplies : JobOracleReturns(j, reply)
    \/ \E j \in 1..Len(jobs), e \in OracleErrors : JobOracleFails(j, e)
    \/ \E j \in 1..Len(jobs) : JobSelectExisting(j)
    \/ \E j \in 1..Len(jobs) : JobUpsert(j)
    \/ \E j \in 1..Len(jobs) : JobMarkCompleted(j)
    \/ \E j \in 1..Len(jobs) : JobStoreFails(j)
    \/ \E j \in 1..Len(jobs) : JobHandleError(j)
    \/ \E j \in 1..Len(jobs) : JobHandleErrorFails(j)
    \/ \E j \in 1..Len(jobs) : JobCleanupCheck(j)
    \/ \E j \in 1..Len(jobs) : JobCleanupRemove(j)

SpecPair == Init /\ [][NextPair]_vars


\* ------------------------------------------------ sequential re-invocation
\* A caller runs process_exam_background again for document d, with the
\* document's storage path, after every earlier job has ended.
Reinvoke(d) ==
    /\ \E j \in 1..Len(jobs) : jobs[j].exam_id = d
    /\ LET first == CHOOSE j \in 1..Len(jobs) : jobs[j].exam_id = d IN
       jobs' = Append(jobs, NewJob(d, exams[d].storage_path, jobs[first].uploaded))
    /\ UNCHANGED <<exams, study_plans, topic_summaries, files, uploads, guide, recover>>

\* A job run again finds its file only when an upload of the same filename
\* has written it again: the uploads of SpecSeq share one filename.
SeqFilenames == {"a.pdf"}
SeqContents == {"pdf_plain", "pdf_scan"}

Idle == \A j \in 1..Len(jobs) : ~Active(j)

\* Jobs run one after another: a job is started (by an upload or by a
\* re-invocation) only when no job is running, and requests are handled
\* between jobs.
NextSeq ==
    \/ \E f \in SeqFilenames, c \in SeqContents :
            Idle /\ Len(uploads) < MaxSeqJobs /\ UploadWrite(f, c)
    \/ \E u \in 1..Len(uploads) :
            Idle /\ Len(jobs) < MaxSeqJobs /\ UploadInsert(u)
    \/ \E u \in 1..Len(uploads) : Idle /\ UploadInsertFails(u)
    \/ \E d \in 1..Len(exams) :
            Idle /\ Len(jobs) < MaxSeqJobs /\ Reinvoke(d)
    \/ \E j \in 1..Len(jobs) : JobMarkProcessing(j)
    \/ \E j \in 1..Len(jobs) : JobMarkProcessingFails(j)
    \/ \E j \in 1..Len(jobs) : JobExtract(j)
    \/ \E j \in 1..Len(jobs), reply \in OracleReplies : JobOracleReturns(j, reply)
    \/ \E j \in 1..Len(jobs), e \in OracleErrors : JobOracleFails(j, e)
    \/ \E j \in 1..Len(jobs) : JobSelectExisting(j)
    \/ \E j \in 1..Len(jobs) : JobUpsert(j)
    \/ \E j \in 1..Len(jobs) : JobMarkCompleted(j)
    \/ \E j \in 1..Len(jobs) : JobStoreFails(j)
    \/ \E j \in 1..Len(jobs) : JobHandleError(j)
    \/ \E j \in 1..Len(jobs) : JobHandleErrorFails(j)
    \/ \E j \in 1..Len(jobs) : JobCleanupCheck(j)
    \/ \E j \in 1..Len(jobs) : JobCleanupRemove(j)

SpecSeq == Init /\ [][NextSeq]_vars

\* ---------------------------------------------- overlapping re-invocation
\* SpecRace: one upload, and process_exam_background run again for its
\* document while earlier jobs for it are still running.
NextRace ==
    \/ \E f \in SeqFilenames, c \in SeqContents :
            uploads = <<>> /\ UploadWrite(f, c)
    \/ \E u \in 1..Len(uploads) : UploadInsert(u)
    \/ \E u \in 1..Len(uploads) : UploadInsertFails(u)
    \/ \E d \in 1..Len(exams) : Len(jobs) < MaxRaceJobs /\ Reinvoke(d)
    \/ \E j \in 1..Len(jobs) : JobMarkProcessing(j)
    \/ \E j \in 1..Len(jobs) : JobMarkProcessingFails(j)
    \/ \E j \in 1..Len(jobs) : JobExtract(j)
    \/ \E j \in 1..Len(jobs), reply \in OracleReplies : JobOracleReturns(j, reply)
    \/ \E j \in 1..Len(jobs), e \in OracleErrors : JobOracleFails(j, e)
    \/ \E j \in 1..Len(jobs) : JobSelectExisting(j)
    \/ \E j \in 1..Len(jobs) : JobUpsert(j)
    \/ \E j \in 1..Len(jobs) : JobMarkCompleted(j)
    \/ \E j \in 1..Len(jobs) : JobStoreFails(j)
    \/ \E j \in 1..Len(jobs) : JobHandleError(j)
    \/ \E j \in 1..Len(jobs) : JobHandleErrorFails(j)
    \/ \E j \in 1..Len(jobs) : JobCleanupCheck(j)
    \/ \E j \in 1..Len(jobs) : JobCleanupRemove(j)

SpecRace == Init /\ [][NextRace]_vars


\* ------------------------------------------------ parse_json_from_markdown
\* SpecRecover: the function applied to every text of at most MaxLen tokens.
InitRecover ==
    /\ exams = <<>>
    /\ study_plans = <<>>
    /\ topic_summaries = <<>>
    /\ files = [p \in Paths |-> NoFile]
    /\ uploads = <<>>
    /\ jobs = <<>>
    /\ guide = NoGuide
    /\ recover \in {[text |-> t, applied |-> FALSE, result |-> EmptyMapping] :
                        t \in SeqsUpTo(Alphabet, MaxLen)}

Recover ==
    /\ ~recover.applied
    /\ recover' = [recover EXCEPT !.applied = TRUE,
                                  !.result = parse_json_from_markdown(recover.text)]
    /\ UNCHANGED <<exams, study_plans, topic_summaries, files, uploads, jobs, guide>>

SpecRecover == InitRecover /\ [][Recover]_vars

\* ---------------------------------------------------- generate_study_guide
\* Topic strings are sequences of characters.
Topics ==
    { <<>>,
      <<"S", "u", "b">>,
      <<"s", "u", "b">>,
      <<"I", "P", " ", "S", "u", "b">>,
      <<"I", "P">>,
      <<"R", "o">> }

\* str.lower()
Lower(c) ==
    IF c = "S" THEN "s" ELSE IF c = "I" THEN "i" ELSE IF c = "P" THEN "p"
    ELSE IF c = "R" THEN "r" ELSE c
LowerStr(str) == [i \in 1..Len(str) |-> Lower(str[i])]

\* Python's `a in b` on strings.
IsSubstring(a, b) ==
    \E i \in 0..(Len(b) - Len(a)) : SubSeq(b, i + 1, i + Len(a)) = a

\* Line 634 with one direction only.
TopicMatches_OneWay(topic_lower, q_topic) == IsSubstring(topic_lower, q_topic)

\* Line 634: topic_lower in q_topic or q_topic in topic_lower.
TopicMatches(topic_lower, q_topic) ==
    IsSubstring(topic_lower, q_topic) \/ IsSubstring(q_topic, topic_lower)

\* Lines 610-615: the indices of the rows fetched, in table order; an empty
\* exam_ids is falsy and fetches every row.
FetchedRows(exam_ids) ==
    {i \in 1..Len(study_plans) : exam_ids = {} \/ study_plans[i].exam_id \in exam_ids}

\* Lines 626-641: the records kept, as <<row, position>>, in loop order.
RECURSIVE RelatedFrom(_, _, _, _)
RelatedFrom(i, k, fetched, topic_lower) ==
    IF i > Len(study_plans) THEN <<>>
    ELSE IF i \notin fetched \/ k > Len(study_plans[i].raw_json.questions)
         THEN RelatedFrom(i + 1, 1, fetched, topic_lower)
    ELSE IF TopicMatches(topic_lower, LowerStr(study_plans[i].raw_json.questions[k]))
         THEN <<(<<i, k>>)>> \o RelatedFrom(i, k + 1, fetched, topic_lower)
    ELSE RelatedFrom(i, k + 1, fetched, topic_lower)

\* Lines 640-641: the exam ids of the kept records, each once, in order.
RECURSIVE SourceExamIds(_)
SourceExamIds(related) ==
    IF related = <<>> THEN <<>>
    ELSE LET init == SourceExamIds(SubSeq(related, 1, Len(related) - 1))
             d == study_plans[related[Len(related)][1]].exam_id IN
         IF \E n \in 1..Len(init) : init[n] = d THEN init ELSE Append(init, d)

\* Line 676 with a filter no row passes.
TopicRows_None(topic) == {}

\* Line 676: the rows whose topic equals the requested string.
TopicRows(topic) == {i \in 1..Len(topic_summaries) : topic_summaries[i].topic = topic}
FirstTopicRow(topic) ==
    CHOOSE i \in TopicRows(topic) : \A k \in TopicRows(topic) : i <= k

\* The whole handler (lines 606-698) for one request.  fault says which call
\* raises, if any: the fetch, or one after the selection (the oracle, the
\* recovery result's .get, the topic_summaries requests).
GenerateStudyGuide(topic, exam_ids, fault, reply) ==
    LET fetched == FetchedRows(exam_ids)
        related == RelatedFrom(1, 1, fetched, LowerStr(topic))
        guide_json == parse_json_from_markdown(reply)
        req == [NoGuide EXCEPT !.topic = topic, !.exam_ids = exam_ids]
    IN
    IF fault = "fetch"
    THEN /\ guide' = [req EXCEPT !.outcome = "500"]
         /\ UNCHANGED <<exams, study_plans, topic_summaries, files, uploads, jobs, recover>>
    ELSE IF fetched = {}
    THEN /\ guide' = [req EXCEPT !.outcome = "404 No exam data found"]
         /\ UNCHANGED <<exams, study_plans, topic_summaries, files, uploads, jobs, recover>>
    ELSE IF related = <<>>
    THEN /\ guide' = [req EXCEPT !.outcome = "404 No questions found for topic",
                                 !.fetched = fetched]
         /\ UNCHANGED <<exams, study_plans, topic_summaries, files, uploads, jobs, recover>>
    ELSE IF fault = "late" \/ GetRaises(guide_json)
    THEN /\ guide' = [req EXCEPT !.outcome = "500", !.fetched = fetched,
                                 !.selected = related]
         /\ UNCHANGED <<exams, study_plans, topic_summaries, files, uploads, jobs, recover>>
    ELSE LET data == [topic |-> topic, source_exam_ids |-> SourceExamIds(related)] IN
         /\ IF TopicRows(topic) # {}
            THEN /\ topic_summaries' =
                        [i \in 1..Len(topic_summaries) |->
                            IF topic_summaries[i].topic = topic
                            THEN [id |-> topic_summaries[i].id] @@ data
                            ELSE topic_summaries[i]]
                 /\ guide' = [req EXCEPT
                                 !.outcome = "200", !.fetched = fetched,
                                 !.selected = related,
                                 !.source_exam_ids = SourceExamIds(related),
                                 !.id = topic_summaries[FirstTopicRow(topic)].id]
            ELSE /\ topic_summaries' =
                        Append(topic_summaries,
                               [id |-> Len(topic_summaries) + 1] @@ data)
                 /\ guide' = [req EXCEPT
                                 !.outcome = "200", !.fetched = fetched,
                                 !.selected = related,
                                 !.source_exam_ids = SourceExamIds(related),
                                 !.id = Len(topic_summaries) + 1]
         /\ UNCHANGED <<exams, study_plans, files, uploads, jobs, recover>>

GuideFaults == {"none", "fetch", "late"}

\* SpecGuide: one request over a store that holds the analyses of up to two
\* completed documents with at most MaxQuestions question records in all.
CompletedExam == [filename |-> "a.pdf", storage_path |-> TempPath("a.pdf"),
                  status |-> "completed", error_message |-> <<>>]
Analysis(d, qs) ==
    StudyPlanData(d, [kind |-> "dict", summary |-> FALSE, questions |-> qs])
AnalysisStores ==
    {<<>>}
    \cup {<<Analysis(1, q)>> : q \in SeqsUpTo(Topics, MaxQuestions)}
    \cup {<<Analysis(1, q[1]), Analysis(2, q[2])>> :
            q \in {p \in SeqsUpTo(Topics, MaxQuestions) \X SeqsUpTo(Topics, MaxQuestions) :
                      Len(p[1]) + Len(p[2]) <= MaxQuestions}}

InitGuide ==
    /\ study_plans \in AnalysisStores
    /\ exams = [d \in 1..Len(study_plans) |-> CompletedExam]
    /\ topic_summaries = <<>>
    /\ files = [p \in Paths |-> NoFile]
    /\ uploads = <<>>
    /\ jobs = <<>>
    /\ guide = NoGuide
    /\ recover = NoRecover

NextGuide ==
    \E topic \in Topics, exam_ids \in SUBSET {1, 2, 3}, fault \in GuideFaults,
       reply \in OracleReplies :
        guide.outcome = "none" /\ GenerateStudyGuide(topic, exam_ids, fault, reply)

SpecGuide == InitGuide /\ [][NextGuide]_vars

\* SpecGuideRepeat: requests handled one after another, without end, over a
\* fixed store of two analyses.  The handler has no await, so each request
\* runs to its end before the next begins.
RepeatTopics == { <<"S", "u", "b">>, <<"s", "u", "b">>, <<"I", "P">> }
RepeatStore ==
    << Analysis(1, << <<"I", "P", " ", "S", "u", "b">>, <<"R", "o">> >>),
       Analysis(2, << <<"S", "u", "b">> >>) >>

InitGuideRepeat ==
    /\ study_plans = RepeatStore
    /\ exams = [d \in 1..Len(study_plans) |-> CompletedExam]
    /\ topic_summaries = <<>>
    /\ files = [p \in Paths |-> NoFile]
    /\ uploads = <<>>
    /\ jobs = <<>>
    /\ guide = NoGuide
    /\ recover = NoRecover

NextGuideRepeat ==
    \E topic \in RepeatTopics, exam_ids \in SUBSET {1, 2, 3}, fault \in GuideFaults,
       reply \in OracleReplies :
        GenerateStudyGuide(topic, exam_ids, fault, reply)

SpecGuideRepeat == InitGuideRepeat /\ [][NextGuideRepeat]_vars

\* ================================================================ claims
Ended(j) == jobs[j].pc = "done"
TerminalWrites(j) ==
    Len(SelectSeq(jobs[j].writes, LAMBDA w : w \in Terminal))
Status(d) == exams[d].status

\* C1: once a document's status is completed or failed, no step of any job
\* changes it.
C1_TerminalStatusIsFinal ==
    [][\A d \in 1..Len(exams) :
          Status(d) \in Terminal => exams'[d].status = Status(d)]_vars

\* A job has ended having written a terminal status.
C1_Witness ==
    \E j \in 1..Len(jobs) :
        Ended(j) /\ Status(jobs[j].exam_id) = "completed"

\* C2: every job that has ended has written a terminal status exactly once.
C2_ExactlyOneTerminalWrite ==
    \A j \in 1..Len(jobs) : Ended(j) => TerminalWrites(j) = 1

C4_FailuresAreContained ==
    \A j \in 1..Len(jobs) :
        Ended(j) =>
            /\ ~jobs[j].escaped
            /\ jobs[j].raised =>
                   /\ Status(jobs[j].exam_id) = "failed"
                   /\ exams[jobs[j].exam_id].error_message # <<>>

\* C5: at the step in which a job ends, its temporary file does not exist.
C5_CleanupUnconditional ==
    [][\A j \in 1..Len(jobs) :
          (jobs[j].pc # "done" /\ jobs'[j].pc = "done") =>
              files'[jobs[j].file_path] = NoFile]_vars

\* C6: a job whose recovery returned the empty mapping raises nothing at the
\* recovery step and, when its store requests return, ends with status
\* completed and a row with the empty payload.
C6_EmptyRecoveryCompletes ==
    \A j \in 1..Len(jobs) :
        (jobs[j].recovered /\ jobs[j].ai_output = EmptyMapping) =>
            /\ jobs[j].raised => jobs[j].storeFailed \/ jobs[j].escaped
            /\ (Ended(j) /\ ~jobs[j].storeFailed) =>
                   /\ Status(jobs[j].exam_id) = "completed"
                   /\ \E i \in RowsFor(study_plans, jobs[j].exam_id) :
                          study_plans[i].raw_json = EmptyMapping

C6_Witness ==
    \E j \in 1..Len(jobs) :
        /\ Ended(j) /\ jobs[j].recovered /\ ~jobs[j].raised
        /\ jobs[j].ai_output = EmptyMapping
        /\ Status(jobs[j].exam_id) = "completed"

\* C7: parse_json_from_markdown returns a mapping for every text.
C7_RecoverYieldsMapping ==
    recover.applied => recover.result.kind = "dict"

\* The first of the three parses that succeeds, each failure falling through
\* to the next parse.
FirstSuccessfulParse(text) ==
    IF JsonLoads(text).ok THEN JsonLoads(text).val
    ELSE IF FenceStart(text) # 0 /\ FenceEnd(text) # 0
            /\ JsonLoads(FencedBlock(text)).ok
         THEN JsonLoads(FencedBlock(text)).val
    ELSE IF HasBraces(text) /\ JsonLoads(BraceSpan(text)).ok
         THEN JsonLoads(BraceSpan(text)).val
    ELSE EmptyMapping

\* C8: the result is that of the first of the three parses that succeeds,
\* and the empty mapping only when all three fail.
C8_RecoverFirstSuccess ==
    recover.applied => recover.result = FirstSuccessfulParse(recover.text)

\* C9: when jobs run one after another, no document id has two study_plans
\* rows.
C9_OneRowPerDocument ==
    \A d \in 1..Len(exams) : Cardinality(RowsFor(study_plans, d)) <= 1

\* A later job found the row of an earlier job and updated it.
C9_Witness ==
    \E j \in 1..Len(jobs) :
        /\ jobs[j].existing /\ Ended(j)
        /\ Status(jobs[j].exam_id) = "completed"
        /\ Cardinality(RowsFor(study_plans, jobs[j].exam_id)) = 1


Range(seq) == {seq[n] : n \in 1..Len(seq)}
TopicOf(pair) == study_plans[pair[1]].raw_json.questions[pair[2]]
FetchedPairs ==
    {p \in guide.fetched \X (1..MaxQuestions) :
        p[2] <= Len(study_plans[p[1]].raw_json.questions)}
GuideFetchReturned ==
    guide.outcome # "none" /\ ~(guide.outcome = "500" /\ guide.fetched = {})

\* C10: the records selected are exactly those of the fetched rows whose
\* lower-cased topic contains the lower-cased requested topic or is
\* contained in it, and the request ends with 404 exactly when no row was
\* fetched or no record was selected.
C10_SelectsByBidirectionalSubstring ==
    GuideFetchReturned =>
        /\ \A p \in FetchedPairs :
               p \in Range(guide.selected) <=>
                   \/ IsSubstring(LowerStr(guide.topic), LowerStr(TopicOf(p)))
                   \/ IsSubstring(LowerStr(TopicOf(p)), LowerStr(guide.topic))
        /\ Range(guide.selected) \subseteq FetchedPairs
        /\ guide.outcome \in {"404 No exam data found",
                               "404 No questions found for topic"} <=>
               (FetchedRows(guide.exam_ids) = {} \/ guide.selected = <<>>)

\* The request "Sub" over one analysis with the topics "IP Sub" and "Ro"
\* keeps the first record and drops the second.
C10_Witness ==
    /\ guide.outcome = "200"
    /\ guide.topic = <<"S", "u", "b">>
    /\ Len(study_plans) = 1
    /\ study_plans[1].raw_json.questions =
           << <<"I", "P", " ", "S", "u", "b">>, <<"R", "o">> >>
    /\ guide.selected = << <<1, 1>> >>

SummariesOf(summaries, topic) ==
    {i \in 1..Len(summaries) : summaries[i].topic = topic}

\* C11: requests for one topic string, handled one after another, leave
\* exactly one topic_summaries row for that topic: no two rows share a
\* topic; a request that succeeds leaves one row for its topic and returns
\* that row's id; and a row, once inserted, keeps its id and its topic, so
\* that every later request returns the id the first one inserted.
C11_OneGuidePerTopic ==
    /\ [](/\ \A i, k \in 1..Len(topic_summaries) :
                 (topic_summaries[i].topic = topic_summaries[k].topic
                  \/ topic_summaries[i].id = topic_summaries[k].id) => i = k
          /\ guide.outcome = "200" =>
                 /\ Cardinality(SummariesOf(topic_summaries, guide.topic)) = 1
                 /\ \A i \in SummariesOf(topic_summaries, guide.topic) :
                        topic_summaries[i].id = guide.id)
    /\ [][/\ Len(topic_summaries') >= Len(topic_summaries)
          /\ \A i \in 1..Len(topic_summaries) :
                 /\ topic_summaries'[i].id = topic_summaries[i].id
                 /\ topic_summaries'[i].topic = topic_summaries[i].topic]_vars

\* A request for the topic of the first row, made after a second topic got
\* its row, rewrote the first row and returned its id.
C11_Witness ==
    /\ Len(topic_summaries) = 2
    /\ guide.outcome = "200"
    /\ guide.topic = topic_summaries[1].topic
    /\ guide.id = topic_summaries[1].id
    /\ guide.source_exam_ids = topic_summaries[1].source_exam_ids
    /\ guide.source_exam_ids = <<2>>

\* C12: a step of one job changes, for no job of a document with another
\* id, the bytes that job has still to read, the status of its document or
\* the study_plans rows of its document.
C12_JobsDoNotInterfere ==
    [][\A j, k \in 1..Len(jobs) :
          (jobs'[k] # jobs[k] /\ jobs[j].exam_id # jobs[k].exam_id) =>
              /\ jobs[j].pc \in {"queued", "extract"} =>
                     files'[jobs[j].file_path] = files[jobs[j].file_path]
              /\ exams'[jobs[j].exam_id] = exams[jobs[j].exam_id]
              /\ \A i \in RowsFor(study_plans, jobs[j].exam_id) :
                     i <= Len(study_plans') /\ study_plans'[i] = study_plans[i]
              /\ RowsFor(study_plans', jobs[j].exam_id) =
                     RowsFor(study_plans, jobs[j].exam_id)]_vars

\* get_solution: the payload of the first study_plans row of document d.
GetSolution(d) ==
    study_plans[CHOOSE i \in RowsFor(study_plans, d) :
                    \A k \in RowsFor(study_plans, d) : i <= k].raw_json

\* C13: a job whose conversion gave text and whose oracle call returned
\* ends, when its store requests return, with status completed and a
\* retrievable row whose payload is the recovered reply, whatever the
\* segmenter found and whatever the reply holds.
C13_OracleReplyCompletes ==
    \A j \in 1..Len(jobs) :
        (Ended(j) /\ jobs[j].recovered /\ ~jobs[j].storeFailed) =>
            /\ Status(jobs[j].exam_id) = "completed"
            /\ HasRow(jobs[j].exam_id)
            /\ GetSolution(jobs[j].exam_id) = jobs[j].ai_output

\* C14: the steps of a job are ordered.  While the job extracts or waits for
\* the oracle its processing write has been made, so the status read then
\* is not uploading; a study_plans row of the document exists only when a
\* job for it got its oracle reply and went past the row write; and
\* completed is written only by a job past its row write, so a completed
\* document has a row.
C14_StepOrder ==
    /\ \A j \in 1..Len(jobs) :
           /\ jobs[j].pc \in {"extract", "oracle"} =>
                  /\ jobs[j].writes = <<"processing">>
                  /\ Status(jobs[j].exam_id) # "uploading"
                  /\ ~jobs[j].recovered
           /\ (\E n \in 1..Len(jobs[j].writes) : jobs[j].writes[n] = "completed") =>
                  /\ jobs[j].recovered
                  /\ jobs[j].pc \in {"finally", "remove", "done"}
                  /\ HasRow(jobs[j].exam_id)
    /\ \A d \in 1..Len(exams) :
           /\ HasRow(d) =>
                  \E j \in 1..Len(jobs) :
                      /\ jobs[j].exam_id = d /\ jobs[j].recovered
                      /\ jobs[j].pc \notin {"queued", "extract", "oracle", "select", "upsert"}
           /\ Status(d) = "completed" =>
                  \E j \in 1..Len(jobs) :
                      /\ jobs[j].exam_id = d
                      /\ jobs[j].writes = <<"processing", "completed">>

\* A job waits for the oracle: the status of its document is processing and
\* no row has been written.
C14_Witness ==
    \E j \in 1..Len(jobs) :
        /\ jobs[j].pc = "oracle"
        /\ Status(jobs[j].exam_id) = "processing"
        /\ ~HasRow(jobs[j].exam_id)

\* The jobs for document d that read 'no existing row' and went past the
\* branch at lines 441-444.
InsertersOf(d) ==
    {j \in 1..Len(jobs) :
        /\ jobs[j].exam_id = d /\ jobs[j].recovered /\ ~jobs[j].existing
        /\ jobs[j].pc \notin {"queued", "extract", "oracle", "select", "upsert"}}

\* C15: the upsert is a query followed by a branch on what the query
\* returned.  A job that read 'no existing row' inserts, and one that read
\* a row updates, whatever the table holds at the time of the write; so a
\* document has at most as many rows as jobs that read 'no existing row',
\* and two overlapping jobs for one id can leave two rows.
C15_UpsertIsQueryThenBranch ==
    /\ [](\A d \in 1..Len(exams) :
             Cardinality(RowsFor(study_plans, d)) <= Cardinality(InsertersOf(d)))
    /\ [][\A j \in 1..Len(jobs) :
             (jobs[j].pc = "upsert" /\ jobs'[j].pc = "complete") =>
                 IF jobs[j].existing
                 THEN Len(study_plans') = Len(study_plans)
                 ELSE study_plans' =
                          Append(study_plans,
                                 StudyPlanData(jobs[j].exam_id, jobs[j].ai_output))]_vars

\* Two jobs for one document both read 'no existing row' and both inserted:
\* the document has two rows.
C15_Witness ==
    \E d \in 1..Len(exams) :
        /\ Cardinality(RowsFor(study_plans, d)) = 2
        /\ \E j, k \in InsertersOf(d) : j # k /\ Ended(j) /\ Ended(k)

\* C16: a job that failed because the oracle call raised has stored one of
\* the two user-facing messages, never the text of the upstream error.
C16_OracleErrorsAreGeneric ==
    \A j \in 1..Len(jobs) :
        (/\ jobs[j].pc \in {"finally", "remove"}
         /\ jobs[j].error_msg \in OracleErrors
         /\ jobs[j].writes = <<"processing", "failed">>) =>
            /\ exams[jobs[j].exam_id].error_message \in {UserRateLimit, UserService}
            /\ exams[jobs[j].exam_id].error_message # jobs[j].error_msg

====
